---- MODULE Spec2Model ----
(***************************************************************************)
(* Model of src/PY/text_analyzer.py: main() selects the text to analyse,   *)
(* analyze_text() computes the statistics record, format_report() renders  *)
(* it.  A string is a sequence of one-character strings.                   *)
(***************************************************************************)
EXTENDS Integers, Sequences, FiniteSets, TLC

VARIABLES args, stdin, fileContent, text, source, words, stats, report, pc

vars == <<args, stdin, fileContent, text, source, words, stats, report, pc>>

-----------------------------------------------------------------------------
(* Bounds of the model                                                      *)

\* longest --text value enumerated character by character
MaxLen == 4
\* longest file content / stdin line enumerated character by character
MaxIOLen == 2
\* most words in a --text value built from the vocabulary
MaxTokens == 7

-----------------------------------------------------------------------------
(* Characters and character classes                                         *)

\* "U+2102" stands for the single character DOUBLE-STRUCK CAPITAL C, an
\* uppercase letter (category Lu, matched by \w) with no lowercase form
Letters == {"a", "b", "c", "d", "e", "A", "B", "U+2102"}
Digits == {"0", "1", "2", "3", "4", "5", "6", "7", "8", "9"}
Whitespace == {" ", "\n", "\t"}
Terminators == {".", "!", "?"}
Quotes == {"'", "\""}

\* the characters enumerated exhaustively in the inputs
Alphabet == {"a", "b", "A", "U+2102", "'", "-", "\"", " ", "\n", ".", "!"}

\* regex class \w
IsWordChar(c) == c \in Letters \cup Digits \cup {"_"}

\* regex class [\w'-]
InWordClass(c) == IsWordChar(c) \/ c = "'" \/ c = "-"

\* regex class \s, and the characters str.strip() removes
IsSpace(c) == c \in Whitespace

\* regex class [.!?]
IsTerminator(c) == c \in Terminators

Max(S) == CHOOSE x \in S : \A y \in S : y <= x

-----------------------------------------------------------------------------
(* re.findall(r"\b[\w'-]+\b", text)                                         *)

\* \b at offset p (between s[p] and s[p+1], 1-based)
WordBoundary(s, p) ==
    (p > 0 /\ IsWordChar(s[p])) # (p < Len(s) /\ IsWordChar(s[p + 1]))

\* MatchWordAt without the closing \b
MatchWordAtNoEndBoundary(s, p) ==
    IF ~WordBoundary(s, p) THEN -1
    ELSE LET ends == {e \in (p + 1)..Len(s) :
                        \A k \in (p + 1)..e : InWordClass(s[k])}
         IN IF ends = {} THEN -1 ELSE Max(ends)

\* end offset of the match of \b[\w'-]+\b that starts at offset p, or -1:
\* the greedy + takes the longest run and backtracks to the last \b
MatchWordAt(s, p) ==
    IF ~WordBoundary(s, p) THEN -1
    ELSE LET ends == {e \in (p + 1)..Len(s) :
                        /\ \A k \in (p + 1)..e : InWordClass(s[k])
                        /\ WordBoundary(s, e)}
         IN IF ends = {} THEN -1 ELSE Max(ends)

RECURSIVE FindAllFrom(_, _)
\* the scan of findall: leftmost match at or after pos, then on from its end
FindAllFrom(s, pos) ==
    IF pos >= Len(s) THEN <<>>
    ELSE LET e == MatchWordAt(s, pos)
         IN IF e = -1 THEN FindAllFrom(s, pos + 1)
            ELSE <<SubSeq(s, pos + 1, e)>> \o FindAllFrom(s, e)

FindAllWords(s) == FindAllFrom(s, 0)

-----------------------------------------------------------------------------
(* len(re.sub(r"\s+", "", text))                                            *)

\* end offset of the greedy match of \s+ at offset p, or -1
MatchSpacesAt(s, p) ==
    LET ends == {e \in (p + 1)..Len(s) : \A k \in (p + 1)..e : IsSpace(s[k])}
    IN IF ends = {} THEN -1 ELSE Max(ends)

RECURSIVE SubSpacesFrom(_, _)
SubSpacesFrom(s, pos) ==
    IF pos >= Len(s) THEN <<>>
    ELSE LET e == MatchSpacesAt(s, pos)
         IN IF e = -1 THEN <<s[pos + 1]>> \o SubSpacesFrom(s, pos + 1)
            ELSE SubSpacesFrom(s, e)

RemoveSpaces(s) == SubSpacesFrom(s, 0)

-----------------------------------------------------------------------------
(* [s for s in re.split(r'[.!?]+', text) if s.strip()]                      *)

\* end offset of the greedy match of [.!?]+ at offset p, or -1
MatchTerminatorsAt(s, p) ==
    LET ends == {e \in (p + 1)..Len(s) : \A k \in (p + 1)..e : IsTerminator(s[k])}
    IN IF ends = {} THEN -1 ELSE Max(ends)

RECURSIVE SplitFrom(_, _, _)
\* re.split: from is where the current piece starts, pos the scan position
SplitFrom(s, from, pos) ==
    IF pos >= Len(s) THEN <<SubSeq(s, from + 1, Len(s))>>
    ELSE LET e == MatchTerminatorsAt(s, pos)
         IN IF e = -1 THEN SplitFrom(s, from, pos + 1)
            ELSE <<SubSeq(s, from + 1, pos)>> \o SplitFrom(s, e, e)

\* SplitSentences losing the piece after the last terminator
SplitSentencesDropTail(s) ==
    LET pieces == SplitFrom(s, 0, 0) IN SubSeq(pieces, 1, Len(pieces) - 1)

SplitSentences(s) == SplitFrom(s, 0, 0)

RECURSIVE LStrip(_, _)
LStrip(s, chars) ==
    IF s # <<>> /\ Head(s) \in chars THEN LStrip(Tail(s), chars) ELSE s

RECURSIVE RStrip(_, _)
RStrip(s, chars) ==
    IF s # <<>> /\ s[Len(s)] \in chars
    THEN RStrip(SubSeq(s, 1, Len(s) - 1), chars) ELSE s

\* s.strip()
Strip(s) == RStrip(LStrip(s, Whitespace), Whitespace)

\* KeepSentence without the filter
KeepAnyPiece(piece) == TRUE

\* KeepSentence without the strip
KeepNonEmptyPiece(piece) == piece # <<>>

\* the "if s.strip()" filter: a piece is kept when stripping leaves something
KeepSentence(piece) == Strip(piece) # <<>>

Sentences(s) == SelectSeq(SplitSentences(s), KeepSentence)

-----------------------------------------------------------------------------
(* Counter(w.lower().strip("'\"") for w in words).most_common(5)            *)

\* str.lower() on one character: a character with no lowercase form is kept
LowerChar(c) == CASE c = "A" -> "a" [] c = "B" -> "b" [] OTHER -> c

\* Lower left out
LowerMissing(w) == w

\* w.lower()
Lower(w) == [i \in 1..Len(w) |-> LowerChar(w[i])]

\* w.strip("'\"")
StripQuotes(w) == RStrip(LStrip(w, Quotes), Quotes)

Normalize(w) == StripQuotes(Lower(w))

NormalizedWords(ws) == [i \in 1..Len(ws) |-> Normalize(ws[i])]

\* Counter.__init__ on one element: count an existing key, or insert a new
\* key at the end (dict insertion order)
CounterAdd(counter, w) ==
    IF \E i \in 1..Len(counter) : counter[i][1] = w
    THEN LET i == CHOOSE j \in 1..Len(counter) : counter[j][1] = w
         IN [counter EXCEPT ![i] = <<w, counter[i][2] + 1>>]
    ELSE Append(counter, <<w, 1>>)

RECURSIVE CounterFrom(_, _)
CounterFrom(counter, ws) ==
    IF ws = <<>> THEN counter
    ELSE CounterFrom(CounterAdd(counter, Head(ws)), Tail(ws))

\* Counter(iterable).items(), in insertion order
Counter(ws) == CounterFrom(<<>>, ws)

RemoveAt(seq, i) == SubSeq(seq, 1, i - 1) \o SubSeq(seq, i + 1, Len(seq))

RECURSIVE NLargest(_, _)
\* heapq.nlargest(n, items, key=count): largest count first, the earlier item
\* first among equal counts
NLargest(n, items) ==
    IF n = 0 \/ items = <<>> THEN <<>>
    ELSE LET best == CHOOSE i \in 1..Len(items) :
                        \A j \in 1..Len(items) :
                            \/ items[j][2] < items[i][2]
                            \/ items[j][2] = items[i][2] /\ i <= j
         IN <<items[best]>> \o NLargest(n - 1, RemoveAt(items, best))

\* the argument of most_common
TopN == 5

\* MostCommonWords as most_common() without the argument
MostCommonAll(ws) ==
    LET counter == Counter(NormalizedWords(ws)) IN NLargest(Len(counter), counter)

\* MostCommonWords taking the first TopN items without ranking them
MostCommonUnsorted(ws) ==
    LET counter == Counter(NormalizedWords(ws))
    IN SubSeq(counter, 1, IF Len(counter) < TopN THEN Len(counter) ELSE TopN)

MostCommonWords(ws) == NLargest(TopN, Counter(NormalizedWords(ws)))

-----------------------------------------------------------------------------
(* analyze_text                                                             *)

\* NumChars as len(text.strip())
NumCharsStripped(s) == Len(Strip(s))

NumChars(s) == Len(s)

NumCharsNoSpaces(s) == Len(RemoveSpaces(s))

AnalyzeText(s) ==
    LET ws == FindAllWords(s)
    IN [words |-> Len(ws),
        characters |-> NumChars(s),
        characters_no_spaces |-> NumCharsNoSpaces(s),
        sentences |-> Len(Sentences(s)),
        most_common_words |-> MostCommonWords(ws)]

-----------------------------------------------------------------------------
(* format_report                                                            *)

DigitChar == <<"0", "1", "2", "3", "4", "5", "6", "7", "8", "9">>

RECURSIVE Str(_)
\* f"{n}" for a non-negative integer
Str(n) == IF n < 10 THEN <<DigitChar[n + 1]>>
          ELSE Str(n \div 10) \o <<DigitChar[(n % 10) + 1]>>

WordsLabel == <<"W", "o", "r", "d", "s", ":", " ">>
CharsLabel == <<"C", "h", "a", "r", "a", "c", "t", "e", "r", "s", " ", "(",
                "i", "n", "c", "l", "u", "d", "i", "n", "g", " ",
                "s", "p", "a", "c", "e", "s", ")", ":", " ">>
NoSpacesLabel == <<"C", "h", "a", "r", "a", "c", "t", "e", "r", "s", " ", "(",
                   "n", "o", " ", "s", "p", "a", "c", "e", "s", ")", ":", " ">>
SentencesLabel == <<"S", "e", "n", "t", "e", "n", "c", "e", "s", ":", " ">>
TopWordsLabel == <<"T", "o", "p", " ", "w", "o", "r", "d", "s", ":", " ">>

RECURSIVE Join(_, _)
\* sep.join(parts)
Join(sep, parts) ==
    IF parts = <<>> THEN <<>>
    ELSE IF Len(parts) = 1 THEN parts[1]
    ELSE parts[1] \o sep \o Join(sep, Tail(parts))

\* f"{w}({c})"
FormatPair(pair) == pair[1] \o <<"(">> \o Str(pair[2]) \o <<")">>

\* ReportLines without the test for an empty most_common_words
ReportLinesAlwaysTop(st) ==
    LET mcw == st.most_common_words
    IN <<WordsLabel \o Str(st.words),
         CharsLabel \o Str(st.characters),
         NoSpacesLabel \o Str(st.characters_no_spaces),
         SentencesLabel \o Str(st.sentences),
         TopWordsLabel \o
            Join(<<",", " ">>, [i \in 1..Len(mcw) |-> FormatPair(mcw[i])])>>

ReportLines(st) ==
    LET lines == <<WordsLabel \o Str(st.words),
                   CharsLabel \o Str(st.characters),
                   NoSpacesLabel \o Str(st.characters_no_spaces),
                   SentencesLabel \o Str(st.sentences)>>
        mcw == st.most_common_words
    IN IF mcw # <<>>
       THEN Append(lines, TopWordsLabel \o
                Join(<<",", " ">>, [i \in 1..Len(mcw) |-> FormatPair(mcw[i])]))
       ELSE lines

FormatReport(st) == Join(<<"\n">>, ReportLines(st))

-----------------------------------------------------------------------------
(* Inputs                                                                   *)

RECURSIVE StringsOver(_, _)
\* every string over chars of length at most n
StringsOver(chars, n) ==
    IF n = 0 THEN {<<>>}
    ELSE LET shorter == StringsOver(chars, n - 1)
         IN shorter \cup {Append(s, c) : s \in {t \in shorter : Len(t) = n - 1},
                                          c \in chars}

\* words of the longer --text values, in the order they are first used
Vocabulary == <<<<"b">>, <<"a">>, <<"A">>, <<"d">>, <<"c", "-", "1">>, <<"_">>,
                <<"B", "'", "a">>, <<"e">>, <<"0">>>>

\* the largest vocabulary index in l, 0 for the empty list
MaxUsed(l) == IF l = <<>> THEN 0 ELSE Max({l[i] : i \in 1..Len(l)})

RECURSIVE TokenLists(_)
\* lists of at most n vocabulary indices in which a word is first used only
\* after every word before it in the vocabulary
TokenLists(n) ==
    IF n = 0 THEN {<<>>}
    ELSE LET shorter == TokenLists(n - 1)
         IN shorter \cup
            UNION {{Append(l, v) : v \in {u \in 1..Len(Vocabulary) :
                                                u <= MaxUsed(l) + 1}} :
                   l \in {t \in shorter : Len(t) = n - 1}}

\* the words of a token list, separated by single spaces
TokenText(l) == Join(<<" ">>, [i \in 1..Len(l) |-> Vocabulary[l[i]]])

\* the values given to --text
TextArgs == StringsOver(Alphabet, MaxLen) \cup
            {TokenText(l) : l \in TokenLists(MaxTokens)}

\* the contents of the file named by --file
FileContents == StringsOver(Alphabet, MaxIOLen)

\* the lines input() returns: a line holds no newline
StdinLines == StringsOver(Alphabet \ {"\n"}, MaxIOLen)

\* a file path given to --file: the empty path and a path of a readable file
FilePaths == {<<>>, <<"f">>}

\* what waits on stdin when the command line names a text or a file
PendingLine == <<"b", " ", "a">>

NoStats == [words |-> 0, characters |-> 0, characters_no_spaces |-> 0,
            sentences |-> 0, most_common_words |-> <<>>]

-----------------------------------------------------------------------------
(* The program                                                              *)

\* parse_args with the mutually exclusive group: --text, --file or neither
Init ==
    /\ \/ /\ args = [hasText |-> FALSE, text |-> <<>>,
                     hasFile |-> FALSE, file |-> <<>>]
          /\ stdin \in StdinLines
          /\ fileContent = <<>>
       \/ /\ \E t \in TextArgs :
                /\ args = [hasText |-> TRUE, text |-> t,
                           hasFile |-> FALSE, file |-> <<>>]
                /\ IF t = <<>> THEN stdin \in StdinLines ELSE stdin = PendingLine
          /\ fileContent = <<>>
       \/ /\ \E f \in FilePaths :
                /\ args = [hasText |-> FALSE, text |-> <<>>,
                           hasFile |-> TRUE, file |-> f]
                /\ IF f = <<>>
                   THEN stdin \in StdinLines /\ fileContent = <<>>
                   ELSE stdin = PendingLine /\ fileContent \in FileContents
    /\ text = <<>>
    /\ source = "unset"
    /\ words = <<>>
    /\ stats = NoStats
    /\ report = <<>>
    /\ pc = "main"

\* truthiness of an optional string argument: None and "" are false
Truthy(has, value) == has /\ value # <<>>

\* if args.file: text = fh.read()
MainFile ==
    /\ pc = "main"
    /\ Truthy(args.hasFile, args.file)
    /\ text' = fileContent
    /\ source' = "file"
    /\ pc' = "analyze"
    /\ UNCHANGED <<args, stdin, fileContent, words, stats, report>>

\* elif args.text: text = args.text
MainText ==
    /\ pc = "main"
    /\ ~Truthy(args.hasFile, args.file)
    /\ Truthy(args.hasText, args.text)
    /\ text' = args.text
    /\ source' = "text"
    /\ pc' = "analyze"
    /\ UNCHANGED <<args, stdin, fileContent, words, stats, report>>

\* else: text = input(...)
MainStdin ==
    /\ pc = "main"
    /\ ~Truthy(args.hasFile, args.file)
    /\ ~Truthy(args.hasText, args.text)
    /\ text' = stdin
    /\ source' = "stdin"
    /\ pc' = "analyze"
    /\ UNCHANGED <<args, stdin, fileContent, words, stats, report>>

\* stats = analyze_text(text); words is the local list of extracted words
Analyze ==
    /\ pc = "analyze"
    /\ words' = FindAllWords(text)
    /\ stats' = AnalyzeText(text)
    /\ pc' = "format"
    /\ UNCHANGED <<args, stdin, fileContent, text, source, report>>

\* print(format_report(stats))
Format ==
    /\ pc = "format"
    /\ report' = FormatReport(stats)
    /\ pc' = "done"
    /\ UNCHANGED <<args, stdin, fileContent, text, source, words, stats>>

Next == MainFile \/ MainText \/ MainStdin \/ Analyze \/ Format

Spec == Init /\ [][Next]_vars

-----------------------------------------------------------------------------
(* Properties                                                               *)

\* analyze_text has returned: words and stats are those of text
Analysed == pc \in {"format", "done"}

Min(a, b) == IF a < b THEN a ELSE b

\* the first positions of the maximal runs of [\w'-] characters of s
RunStarts(s) ==
    {i \in 1..Len(s) : InWordClass(s[i]) /\ (i = 1 \/ ~InWordClass(s[i - 1]))}

\* the last position of the maximal run that starts at i
RunEnd(s, i) ==
    Max({j \in i..Len(s) : \A k \in i..j : InWordClass(s[k])})

\* the runs that hold a word character
WordRunStarts(s) ==
    {i \in RunStarts(s) : \E k \in i..RunEnd(s, i) : IsWordChar(s[k])}

\* the k-th smallest element of a set of positions
Nth(S, k) == CHOOSE i \in S : Cardinality({j \in S : j <= i}) = k

\* the maximal runs of s, in text order
MaximalRuns(s) ==
    [k \in 1..Cardinality(RunStarts(s)) |->
        LET i == Nth(RunStarts(s), k) IN SubSeq(s, i, RunEnd(s, i))]

\* the run that starts at i, from its first to its last word character
TrimmedRun(s, i) ==
    LET inside == {k \in i..RunEnd(s, i) : IsWordChar(s[k])}
    IN SubSeq(s, CHOOSE a \in inside : \A b \in inside : a <= b, Max(inside))

\* the runs that hold a word character, trimmed, in text order
TrimmedRuns(s) ==
    [k \in 1..Cardinality(WordRunStarts(s)) |->
        TrimmedRun(s, Nth(WordRunStarts(s), k))]

\* C1 as claimed: the extracted words are exactly the maximal runs of word
\* characters, apostrophes and hyphens of the text, in text order, and the
\* word count is the number of such runs.
C1_WordsAreMaximalRuns ==
    Analysed =>
        /\ words = MaximalRuns(text)
        /\ stats.words = Cardinality(RunStarts(text))

\* C1 amended: the extracted words are, in text order, the maximal runs of
\* word characters, apostrophes and hyphens that hold a word character, each
\* cut down to the part from its first to its last word character; a run
\* holding no word character gives no word, and the word count is the number
\* of runs that hold a word character.
C1_WordsAreTrimmedRuns ==
    Analysed =>
        /\ words = TrimmedRuns(text)
        /\ stats.words = Cardinality(WordRunStarts(text))

\* a quoted word next to a run of hyphens has been analysed
C1_Witness ==
    /\ Analysed
    /\ stats.words >= 1
    /\ \E i \in WordRunStarts(text) :
            TrimmedRun(text, i) # SubSeq(text, i, RunEnd(text, i))
    /\ RunStarts(text) # WordRunStarts(text)

\* the positions of nw at which a word occurs for the first time
Firsts(nw) == {i \in 1..Len(nw) : \A j \in 1..(i - 1) : nw[j] # nw[i]}

Occurrences(nw, i) == Cardinality({j \in 1..Len(nw) : nw[j] = nw[i]})

\* how many distinct words come before the one first seen at i: those with a
\* larger count, and those with the same count seen earlier
Rank(nw, i) ==
    Cardinality({j \in Firsts(nw) :
                    \/ Occurrences(nw, j) > Occurrences(nw, i)
                    \/ Occurrences(nw, j) = Occurrences(nw, i) /\ j < i})

\* the first 5 entries of the distinct words stably sorted by descending count
ReferenceTop(nw) ==
    [k \in 1..Min(5, Cardinality(Firsts(nw))) |->
        LET i == CHOOSE j \in Firsts(nw) : Rank(nw, j) = k - 1
        IN <<nw[i], Occurrences(nw, i)>>]

\* C2: most_common_words is the first 5 entries of the distinct normalized
\* words, each with its number of occurrences, stably sorted by descending
\* count from first-occurrence order.
C2_TopWordsRanked ==
    Analysed => stats.most_common_words = ReferenceTop(NormalizedWords(words))

\* more than 5 distinct words, a later word outranks an earlier one, and the
\* fifth and sixth distinct words of the ranking have equal counts
C2_Witness ==
    LET nw == NormalizedWords(words)
    IN /\ Analysed
       /\ Cardinality(Firsts(nw)) > 5
       /\ \E i, j \in Firsts(nw) :
            i < j /\ Occurrences(nw, j) > Occurrences(nw, i)
       /\ \E i, j \in Firsts(nw) :
            /\ Rank(nw, i) = 4
            /\ Rank(nw, j) = 5
            /\ Occurrences(nw, i) = Occurrences(nw, j)

DistinctWords(nw) == {nw[i] : i \in 1..Len(nw)}

\* C3: the length of most_common_words is min(5, d), d the number of distinct
\* normalized words; it is never above 5 and is empty exactly when no word
\* was extracted.
C3_TopWordsLength ==
    Analysed =>
        /\ Len(stats.most_common_words) =
                Min(5, Cardinality(DistinctWords(NormalizedWords(words))))
        /\ Len(stats.most_common_words) <= 5
        /\ (stats.most_common_words = <<>>) <=> (words = <<>>)

\* a text with more than 5 distinct words has been analysed
C3_Witness ==
    /\ Analysed
    /\ Cardinality(DistinctWords(NormalizedWords(words))) > 5
    /\ Len(stats.most_common_words) = 5

\* a character that is neither a terminator nor whitespace
IsContent(c) == ~IsTerminator(c) /\ ~IsSpace(c)

\* the positions of the first content character of each segment: no content
\* character lies between the preceding terminator and the position
SegmentHeads(s) ==
    {i \in 1..Len(s) :
        /\ IsContent(s[i])
        /\ \A j \in 1..(i - 1) :
                IsContent(s[j]) => \E k \in (j + 1)..(i - 1) : IsTerminator(s[k])}

\* C4: sentences is the number of segments between maximal runs of . ! ?
\* that hold a non-whitespace character.
C4_SentenceCount ==
    Analysed => stats.sentences = Cardinality(SegmentHeads(text))

\* consecutive terminators, a whitespace-only segment and an unterminated
\* trailing remainder in one analysed text
C4_Witness ==
    /\ Analysed
    /\ stats.sentences >= 1
    /\ \E i \in 1..(Len(text) - 1) :
            IsTerminator(text[i]) /\ IsTerminator(text[i + 1])
    /\ IsSpace(text[1])
    /\ IsTerminator(text[2])
    /\ IsContent(text[Len(text)])

\* C5: characters is the length of the text and characters_no_spaces is at
\* most characters.
C5_CharacterCounts ==
    Analysed =>
        /\ stats.characters = Len(text)
        /\ stats.characters_no_spaces <= stats.characters

\* a text with a run of two whitespace characters has been analysed
C5_Witness ==
    /\ Analysed
    /\ \E i \in 1..(Len(text) - 1) : IsSpace(text[i]) /\ IsSpace(text[i + 1])
    /\ stats.characters_no_spaces < stats.characters
    /\ stats.characters_no_spaces > 0

\* the uppercase letters, and those of them that have a lowercase form
UpperLetters == {"A", "B", "U+2102"}
CasedUpperLetters == {"A", "B"}

\* C6 as claimed: every word of most_common_words holds no uppercase letter
\* and neither begins nor ends with ' or ".
C6_TopWordsHoldNoUppercase ==
    Analysed =>
        \A k \in 1..Len(stats.most_common_words) :
            LET w == stats.most_common_words[k][1]
            IN /\ \A i \in 1..Len(w) : w[i] \notin UpperLetters
               /\ w # <<>> => w[1] \notin Quotes /\ w[Len(w)] \notin Quotes

\* C6 amended: every word of most_common_words holds no uppercase letter
\* that has a lowercase form (an uppercase letter without one is kept as it
\* is) and neither begins nor ends with ' or ".
C6_TopWordsNormalized ==
    Analysed =>
        \A k \in 1..Len(stats.most_common_words) :
            LET w == stats.most_common_words[k][1]
            IN /\ \A i \in 1..Len(w) : w[i] \notin CasedUpperLetters
               /\ w # <<>> => w[1] \notin Quotes /\ w[Len(w)] \notin Quotes

\* an uppercase word between quote characters has been analysed
C6_Witness ==
    /\ Analysed
    /\ stats.most_common_words # <<>>
    /\ \E i \in 1..(Len(text) - 2) :
            /\ text[i] \in Quotes
            /\ text[i + 1] \in CasedUpperLetters
            /\ text[i + 2] \in Quotes

AllWhitespace(s) == \A i \in 1..Len(s) : IsSpace(s[i])

\* C7: analyze_text returns a statistics record for every text, and for an
\* empty or whitespace-only text it returns zero words, sentences and
\* characters_no_spaces, no top words, and characters = length of the text.
C7_DegenerateInput ==
    /\ Analysed =>
            /\ DOMAIN stats = {"words", "characters", "characters_no_spaces",
                               "sentences", "most_common_words"}
            /\ stats.words \in Nat
            /\ stats.characters \in Nat
            /\ stats.characters_no_spaces \in Nat
            /\ stats.sentences \in Nat
    /\ Analysed /\ AllWhitespace(text) =>
            stats = [words |-> 0, characters |-> Len(text),
                     characters_no_spaces |-> 0, sentences |-> 0,
                     most_common_words |-> <<>>]

\* a non-empty whitespace-only text has been analysed
C7_Witness ==
    /\ Analysed
    /\ text # <<>>
    /\ AllWhitespace(text)
    /\ stats.characters >= 2

\* the positions of the newlines of r
Newlines(r) == {i \in 1..Len(r) : r[i] = "\n"}

\* the lines of r: the pieces between its newlines
LinesOf(r) ==
    [k \in 1..(Cardinality(Newlines(r)) + 1) |->
        LET from == IF k = 1 THEN 1 ELSE Nth(Newlines(r), k - 1) + 1
            to == IF k = Cardinality(Newlines(r)) + 1 THEN Len(r)
                  ELSE Nth(Newlines(r), k) - 1
        IN SubSeq(r, from, to)]

DigitValue(c) == CHOOSE d \in 0..9 : DigitChar[d + 1] = c

RECURSIVE ParseNat(_)
\* the number a string of digits denotes
ParseNat(ds) ==
    IF ds = <<>> THEN 0
    ELSE 10 * ParseNat(SubSeq(ds, 1, Len(ds) - 1)) + DigitValue(ds[Len(ds)])

\* ds is the decimal numeral of n, without leading zeros
IsNumeral(ds, n) ==
    /\ ds # <<>>
    /\ \A i \in 1..Len(ds) : ds[i] \in Digits
    /\ Len(ds) > 1 => ds[1] # "0"
    /\ ParseNat(ds) = n

\* line is label followed by the numeral of n
IsCountLine(line, label, n) ==
    /\ Len(line) > Len(label)
    /\ SubSeq(line, 1, Len(label)) = label
    /\ IsNumeral(SubSeq(line, Len(label) + 1, Len(line)), n)

RECURSIVE IsPairList(_, _)
\* rest is the pairs word(count), separated by ", ", in the order of pairs
IsPairList(rest, pairs) ==
    IF pairs = <<>> THEN rest = <<>>
    ELSE LET w == pairs[1][1]
             close == {i \in 1..Len(rest) : rest[i] = ")"}
         IN /\ close # {}
            /\ LET c == CHOOSE i \in close : \A j \in close : i <= j
                   after == SubSeq(rest, c + 1, Len(rest))
               IN /\ c > Len(w) + 1
                  /\ SubSeq(rest, 1, Len(w)) = w
                  /\ rest[Len(w) + 1] = "("
                  /\ IsNumeral(SubSeq(rest, Len(w) + 2, c - 1), pairs[1][2])
                  /\ IF Len(pairs) = 1 THEN after = <<>>
                     ELSE /\ Len(after) >= 2
                          /\ SubSeq(after, 1, 2) = <<",", " ">>
                          /\ IsPairList(SubSeq(after, 3, Len(after)), Tail(pairs))

\* C8: the report is the four count lines in their fixed order, followed by
\* one line of word(count) pairs, comma-separated in the order supplied,
\* exactly when most_common_words is not empty; it has no trailing newline,
\* so it has 5 lines when the text holds a word and 4 otherwise.
C8_ReportLayout ==
    pc = "done" =>
        LET lines == LinesOf(report)
            mcw == stats.most_common_words
        IN /\ Len(lines) = IF mcw = <<>> THEN 4 ELSE 5
           /\ IsCountLine(lines[1], WordsLabel, stats.words)
           /\ IsCountLine(lines[2], CharsLabel, stats.characters)
           /\ IsCountLine(lines[3], NoSpacesLabel, stats.characters_no_spaces)
           /\ IsCountLine(lines[4], SentencesLabel, stats.sentences)
           /\ mcw # <<>> =>
                /\ Len(lines[5]) > Len(TopWordsLabel)
                /\ SubSeq(lines[5], 1, Len(TopWordsLabel)) = TopWordsLabel
                /\ IsPairList(SubSeq(lines[5], Len(TopWordsLabel) + 1,
                                     Len(lines[5])), mcw)
           /\ report[Len(report)] # "\n"
           /\ Len(lines) = IF words = <<>> THEN 4 ELSE 5

\* a report with several top words and a two-digit count has been printed
C8_Witness ==
    /\ pc = "done"
    /\ Len(stats.most_common_words) >= 2
    /\ stats.characters >= 10
    /\ \E k \in 1..Len(stats.most_common_words) :
            stats.most_common_words[k][2] >= 2

\* C9: a text with at least one word has at least one sentence.
C9_WordImpliesSentence ==
    Analysed => (stats.words >= 1 => stats.sentences >= 1)

\* a text whose only word is followed by a terminator has been analysed
C9_Witness ==
    /\ Analysed
    /\ stats.words = 1
    /\ stats.sentences = 1
    /\ text # <<>>
    /\ IsTerminator(text[Len(text)])

\* C10 as claimed: stdin is read only when neither --text nor --file was
\* given; a given --text value, the empty string included, is the text
\* analysed, and with --file the content of the file is the text analysed.
C10_StdinOnlyWithoutArguments ==
    pc # "main" =>
        /\ source = "stdin" => ~args.hasText /\ ~args.hasFile
        /\ args.hasText => source = "text" /\ text = args.text
        /\ args.hasFile => source = "file" /\ text = fileContent

====
